---- MODULE Spec2Model ----
(***************************************************************************)
(* Model of the compile_time proc-macro crate (src/src/lib.rs).            *)
(*                                                                         *)
(* Two process-wide Lazy cells, COMPILE_TIME (Utc::now) and RUSTC_VERSION  *)
(* (rustc_version::version), are forced by fourteen proc-macro handlers.   *)
(* Every handler dereferences one cell and projects its value into the     *)
(* tokens it emits.  Strings are sequences of one-character strings, so    *)
(* that formatting and parsing are computed and not assumed.               *)
(***************************************************************************)
EXTENDS Integers, Sequences, FiniteSets, TLC

\* ------------------------------------------------------------------ bounds

NumThreads == 2
MaxCalls == 3

Threads == 1..NumThreads

\* ----------------------------------------------------------- text helpers

Digits == <<"0", "1", "2", "3", "4", "5", "6", "7", "8", "9">>

IsDigit(c) == \E i \in 1..10 : Digits[i] = c

DigitVal(c) == (CHOOSE i \in 1..10 : Digits[i] = c) - 1

\* Display of an unsigned integer: its decimal digits, no padding.
RECURSIVE ToDigits(_)
ToDigits(n) == IF n < 10 THEN <<Digits[n + 1]>>
               ELSE ToDigits(n \div 10) \o <<Digits[(n % 10) + 1]>>

\* str::parse::<u64> of a run of digits.
RECURSIVE FromDigits(_)
FromDigits(s) == IF s = <<>> THEN 0
                 ELSE FromDigits(SubSeq(s, 1, Len(s) - 1)) * 10 + DigitVal(s[Len(s)])

\* {n:0w}: the decimal digits of n, left-padded with zeros to width w.
RECURSIVE Pad(_, _)
Pad(n, w) == LET d == ToDigits(n)
             IN IF Len(d) >= w THEN d ELSE <<"0">> \o Pad(n, w - 1)

\* ------------------------------------------------- chrono: calendar dates

\* NaiveDate is a year and the ordinal (1-based day of the year).
IsLeap(year) == (year % 4 = 0 /\ year % 100 # 0) \/ year % 400 = 0

DaysInMonth(year, month) ==
    IF month = 2 THEN (IF IsLeap(year) THEN 29 ELSE 28)
    ELSE IF month \in {4, 6, 9, 11} THEN 30 ELSE 31

\* Days of the year that precede the first day of `month`.
RECURSIVE DaysBefore(_, _)
DaysBefore(year, month) ==
    IF month = 1 THEN 0
    ELSE DaysBefore(year, month - 1) + DaysInMonth(year, month - 1)

\* Leap years among the years 0 .. y-1 of a 400-year cycle (YEAR_DELTAS).
YearDelta(y) == IF y = 0 THEN 0 ELSE 1 + ((y - 1) \div 4) - ((y - 1) \div 100)

\* NaiveDate::from_num_days_from_ce_opt: 400-year cycles, then cycle_to_yo.
FromNumDaysFromCe(days) ==
    LET shifted == days + 365
        yearDiv400 == shifted \div 146097
        cycle == shifted % 146097
        ym == cycle \div 365
        ord0 == cycle % 365
        delta == YearDelta(ym)
        yearMod400 == IF ord0 < delta THEN ym - 1 ELSE ym
        ordinal0 == IF ord0 < delta THEN ord0 + 365 - YearDelta(ym - 1)
                    ELSE ord0 - delta
    IN [year |-> yearDiv400 * 400 + yearMod400, ordinal |-> ordinal0 + 1]

\* NaiveDate::num_days_from_ce, for year >= 1.
NumDaysFromCe(d) ==
    LET y == d.year - 1
        div100 == y \div 100
    IN ((y * 1461) \div 4) - div100 + (div100 \div 4) + d.ordinal

\* Datelike::year / month / day.
Year(d) == d.year

Month(d) == CHOOSE m \in 1..12 :
    /\ DaysBefore(d.year, m) < d.ordinal
    /\ d.ordinal <= DaysBefore(d.year, m) + DaysInMonth(d.year, m)

Day(d) == d.ordinal - DaysBefore(d.year, Month(d))

\* NaiveDate::from_ymd_opt: None unless the triple names a day of the calendar.
FromYmdOpt(year, month, day) ==
    IF month \in 1..12 /\ day >= 1 /\ day <= DaysInMonth(year, month)
    THEN [some |-> TRUE, val |-> [year |-> year, ordinal |-> DaysBefore(year, month) + day]]
    ELSE [some |-> FALSE]

\* --------------------------------------------------- chrono: time of day

\* NaiveTime is the seconds since midnight and the nanosecond fraction.
Hour(t) == t.secs \div 3600

Minute(t) == (t.secs \div 60) % 60

Second(t) == t.secs % 60

\* NaiveTime::from_hms_opt: None unless hour < 24, minute < 60, second < 60.
FromHmsOpt(hour, minute, second) ==
    IF hour \in 0..23 /\ minute \in 0..59 /\ second \in 0..59
    THEN [some |-> TRUE, val |-> [secs |-> hour * 3600 + minute * 60 + second, frac |-> 0]]
    ELSE [some |-> FALSE]

\* ------------------------------------------------ chrono: DateTime<Utc>

\* Utc::now: the system clock's duration since the epoch, as date and time.
UtcNow(clock) ==
    [date |-> FromNumDaysFromCe((clock.secs \div 86400) + 719163),
     time |-> [secs |-> clock.secs % 86400, frac |-> clock.nanos]]

\* Faulty variant: the epoch's day number is off by one.
TimestampOffByDay(dt) == (NumDaysFromCe(dt.date) - 719162) * 86400 + dt.time.secs

\* DateTime::timestamp: whole seconds since 1970-01-01T00:00:00Z.
Timestamp(dt) == (NumDaysFromCe(dt.date) - 719163) * 86400 + dt.time.secs

\* ------------------------------------------------- chrono: strftime items

\* %Y: four digits, zero-padded; a sign is written outside 0..9999.
FormatYear(y) ==
    IF y \in 0..9999 THEN Pad(y, 4)
    ELSE IF y < 0 THEN <<"-">> \o Pad(0 - y, 4) ELSE <<"+">> \o Pad(y, 4)

FormatItem(c, d, t) ==
    CASE c = "Y" -> FormatYear(Year(d))
      [] c = "m" -> Pad(Month(d), 2)
      [] c = "d" -> Pad(Day(d), 2)
      [] c = "H" -> Pad(Hour(t), 2)
      [] c = "M" -> Pad(Minute(t), 2)
      [] c = "S" -> Pad(Second(t), 2)

\* format(fmt).to_string(): literals are copied, %x is replaced by its item.
RECURSIVE Format(_, _, _)
Format(fmt, d, t) ==
    IF fmt = <<>> THEN <<>>
    ELSE IF fmt[1] = "%"
         THEN FormatItem(fmt[2], d, t) \o Format(SubSeq(fmt, 3, Len(fmt)), d, t)
         ELSE <<fmt[1]>> \o Format(Tail(fmt), d, t)

\* ------------------------------------------------------ semver: Version

Letters == {"a", "b", "c", "d", "e", "f", "g", "h", "i", "j", "k", "l", "m",
            "n", "o", "p", "q", "r", "s", "t", "u", "v", "w", "x", "y", "z",
            "A", "B", "C", "D", "E", "F", "G", "H", "I", "J", "K", "L", "M",
            "N", "O", "P", "Q", "R", "S", "T", "U", "V", "W", "X", "Y", "Z"}

IsIdentChar(c) == IsDigit(c) \/ c \in Letters \/ c = "-"

\* Index of the first occurrence of c in s, or Len(s) + 1.
RECURSIVE IndexOf(_, _)
IndexOf(s, c) == IF s = <<>> \/ s[1] = c THEN 1 ELSE 1 + IndexOf(Tail(s), c)

\* The dot-separated segments of s.
RECURSIVE Segments(_)
Segments(s) ==
    LET i == IndexOf(s, ".")
    IN IF i > Len(s) THEN <<s>>
       ELSE <<SubSeq(s, 1, i - 1)>> \o Segments(SubSeq(s, i + 1, Len(s)))

AllDigits(seg) == \A i \in 1..Len(seg) : IsDigit(seg[i])

\* Identifier grammar: non-empty segments of [0-9A-Za-z-]; in a pre-release
\* a numeric segment has no leading zero.
ValidIdent(s, numericRule) ==
    \A k \in 1..Len(Segments(s)) :
        LET seg == Segments(s)[k]
        IN /\ seg # <<>>
           /\ \A i \in 1..Len(seg) : IsIdentChar(seg[i])
           /\ (numericRule /\ AllDigits(seg) /\ Len(seg) > 1) => seg[1] # "0"

\* Prerelease::new / BuildMetadata::new: Ok(identifier) or Err.
PrereleaseNew(s) ==
    IF s = <<>> \/ ValidIdent(s, TRUE) THEN [ok |-> TRUE, val |-> s] ELSE [ok |-> FALSE]

BuildMetadataNew(s) ==
    IF s = <<>> \/ ValidIdent(s, FALSE) THEN [ok |-> TRUE, val |-> s] ELSE [ok |-> FALSE]

\* Faulty variant: the build metadata is not written.
VersionToStringNoBuild(v) ==
    ToDigits(v.major) \o <<".">> \o ToDigits(v.minor) \o <<".">> \o ToDigits(v.patch)
    \o (IF v.pre = <<>> THEN <<>> ELSE <<"-">> \o v.pre)

\* Display for Version: major.minor.patch[-pre][+build].
VersionToString(v) ==
    ToDigits(v.major) \o <<".">> \o ToDigits(v.minor) \o <<".">> \o ToDigits(v.patch)
    \o (IF v.pre = <<>> THEN <<>> ELSE <<"-">> \o v.pre)
    \o (IF v.build = <<>> THEN <<>> ELSE <<"+">> \o v.build)

\* Length of the longest prefix of digits.
RECURSIVE DigitRun(_)
DigitRun(s) == IF s = <<>> \/ ~IsDigit(s[1]) THEN 0 ELSE 1 + DigitRun(Tail(s))

\* A numeric identifier at the head of s: digits, no leading zero.
NumericOk(s) ==
    LET n == DigitRun(s) IN n > 0 /\ (n > 1 => s[1] # "0")

\* What follows major.minor.patch: an optional -pre, then an optional +build.
ParseTail(v, r) ==
    LET plus == IndexOf(r, "+")
        hasPre == r # <<>> /\ r[1] = "-"
        pre == IF hasPre THEN SubSeq(r, 2, plus - 1) ELSE <<>>
        afterPre == IF hasPre THEN SubSeq(r, plus, Len(r)) ELSE r
        hasBuild == afterPre # <<>> /\ afterPre[1] = "+"
        build == IF hasBuild THEN Tail(afterPre) ELSE <<>>
    IN IF /\ hasPre => (pre # <<>> /\ ValidIdent(pre, TRUE))
          /\ hasBuild => (build # <<>> /\ ValidIdent(build, FALSE))
          /\ (afterPre # <<>>) => hasBuild
       THEN [ok |-> TRUE,
             val |-> [major |-> v[1], minor |-> v[2], patch |-> v[3],
                      pre |-> pre, build |-> build]]
       ELSE [ok |-> FALSE]

\* Version::parse: Ok(version) or Err.
VersionParse(s) ==
    LET n1 == DigitRun(s)
        s2 == SubSeq(s, n1 + 2, Len(s))
        n2 == DigitRun(s2)
        s3 == SubSeq(s2, n2 + 2, Len(s2))
        n3 == DigitRun(s3)
    IN IF /\ NumericOk(s) /\ Len(s) > n1 /\ s[n1 + 1] = "."
          /\ NumericOk(s2) /\ Len(s2) > n2 /\ s2[n2 + 1] = "."
          /\ NumericOk(s3)
       THEN ParseTail(<<FromDigits(SubSeq(s, 1, n1)), FromDigits(SubSeq(s2, 1, n2)),
                        FromDigits(SubSeq(s3, 1, n3))>>,
                      SubSeq(s3, n3 + 1, Len(s3)))
       ELSE [ok |-> FALSE]

\* -------------------------------------------------------------- the state

VARIABLES
    clock,          \* the system clock: [secs, nanos] since the Unix epoch
    COMPILE_TIME,   \* Lazy<DateTime<Utc>>: [state, value]
    RUSTC_VERSION,  \* Lazy<Result<Version>>: [state, value]
    pc,             \* per expansion thread: "idle", "force" or "init"
    cur,            \* per expansion thread: the macro being expanded
    outcomes,       \* per macro: the outcomes of its finished expansions
    nowCalls,       \* evaluations of Utc::now
    queryCalls,     \* evaluations of rustc_version::version
    calls           \* expansions started

vars == <<clock, COMPILE_TIME, RUSTC_VERSION, pc, cur, outcomes,
          nowCalls, queryCalls, calls>>

DateTimeOps == {"date", "date_str", "time", "time_str",
                "datetime", "datetime_str", "unix"}

VersionOps == {"rustc_version", "rustc_version_str", "rustc_version_major",
               "rustc_version_minor", "rustc_version_patch",
               "rustc_version_pre", "rustc_version_build"}

Ops == DateTimeOps \cup VersionOps

\* What an expansion hands back: tokens, or a panic with its message.
Tokens(x) == [panic |-> FALSE, tokens |-> x]

Panic(m) == [panic |-> TRUE, msg |-> m]

\* ------------------------------------------------------ date/time macros

\* Faulty variant: the month counted from zero (month0).
date_month0(ct) ==
    Tokens([year |-> Year(ct.date), month |-> Month(ct.date) - 1, day |-> Day(ct.date)])

date(ct) ==
    Tokens([year |-> Year(ct.date), month |-> Month(ct.date), day |-> Day(ct.date)])

\* Faulty variant: day and month swapped in the format string.
date_str_dm(ct) ==
    Tokens(Format(<<"%", "Y", "-", "%", "d", "-", "%", "m">>, ct.date, "None"))

date_str(ct) ==
    Tokens(Format(<<"%", "Y", "-", "%", "m", "-", "%", "d">>, ct.date, "None"))

\* Faulty variant: time! also looks at RUSTC_VERSION and aborts on its Err.
time_checks_version(ct) ==
    IF RUSTC_VERSION.state = "complete" /\ ~RUSTC_VERSION.value.ok
    THEN Panic("Failed to get version: " \o RUSTC_VERSION.value.err)
    ELSE Tokens([hour |-> Hour(ct.time), minute |-> Minute(ct.time),
                 second |-> Second(ct.time)])

time(ct) ==
    Tokens([hour |-> Hour(ct.time), minute |-> Minute(ct.time),
            second |-> Second(ct.time)])

time_str(ct) ==
    Tokens(Format(<<"%", "H", ":", "%", "M", ":", "%", "S">>, "None", ct.time))

datetime(ct) ==
    Tokens([year |-> Year(ct.date), month |-> Month(ct.date), day |-> Day(ct.date),
            hour |-> Hour(ct.time), minute |-> Minute(ct.time),
            second |-> Second(ct.time)])

datetime_str(ct) ==
    Tokens(Format(<<"%", "Y", "-", "%", "m", "-", "%", "d", "T",
                    "%", "H", ":", "%", "M", ":", "%", "S", "Z">>, ct.date, ct.time))

\* Faulty variants of unix!: one reads the clock again instead of the
\* static; one rounds the sub-second part instead of dropping it.
unix_now(ct) == Tokens(Timestamp(UtcNow(clock)))

unix_rounded(ct) ==
    Tokens(Timestamp(ct) + (IF ct.time.frac >= 500000000 THEN 1 ELSE 0))

unix(ct) == Tokens(Timestamp(ct))

\* -------------------------------------------------------- version macros

FailedToGetVersion(err) == Panic("Failed to get version: " \o err)

\* The pre / build expression of the emitted Version: EMPTY, or ::new(text).
IdentTokens(id) == IF id = <<>> THEN [ctor |-> "EMPTY"] ELSE [ctor |-> "new", arg |-> id]

rustc_version(rv) ==
    IF rv.ok
    THEN Tokens([major |-> rv.version.major, minor |-> rv.version.minor,
                 patch |-> rv.version.patch,
                 pre |-> IdentTokens(rv.version.pre),
                 build |-> IdentTokens(rv.version.build)])
    ELSE FailedToGetVersion(rv.err)

rustc_version_str(rv) ==
    IF rv.ok THEN Tokens(VersionToString(rv.version)) ELSE FailedToGetVersion(rv.err)

rustc_version_major(rv) ==
    IF rv.ok THEN Tokens(rv.version.major) ELSE FailedToGetVersion(rv.err)

rustc_version_minor(rv) ==
    IF rv.ok THEN Tokens(rv.version.minor) ELSE FailedToGetVersion(rv.err)

\* Faulty variant: the minor field emitted as the patch.
rustc_version_patch_minor(rv) ==
    IF rv.ok THEN Tokens(rv.version.minor) ELSE FailedToGetVersion(rv.err)

rustc_version_patch(rv) ==
    IF rv.ok THEN Tokens(rv.version.patch) ELSE FailedToGetVersion(rv.err)

\* Faulty variant: a failed query yields the empty string, not a panic.
rustc_version_pre_default(rv) ==
    IF rv.ok THEN Tokens(rv.version.pre) ELSE Tokens(<<>>)

rustc_version_pre(rv) ==
    IF rv.ok THEN Tokens(rv.version.pre) ELSE FailedToGetVersion(rv.err)

rustc_version_build(rv) ==
    IF rv.ok THEN Tokens(rv.version.build) ELSE FailedToGetVersion(rv.err)

\* ------------------------------------- the values the emitted tokens build

\* match NaiveDate::from_ymd_opt(y, m, d) { Some(date) => date, _ => unreachable!() }
EvalDate(tok) ==
    LET d == FromYmdOpt(tok.year, tok.month, tok.day)
    IN IF d.some THEN [unreachable |-> FALSE, date |-> d.val] ELSE [unreachable |-> TRUE]

\* match NaiveTime::from_hms_opt(h, m, s) { Some(time) => time, _ => unreachable!() }
EvalTime(tok) ==
    LET t == FromHmsOpt(tok.hour, tok.minute, tok.second)
    IN IF t.some THEN [unreachable |-> FALSE, time |-> t.val] ELSE [unreachable |-> TRUE]

\* NaiveDateTime::new(date, time).and_utc()
EvalDateTime(tok) ==
    LET d == EvalDate(tok)
        t == EvalTime(tok)
    IN IF d.unreachable \/ t.unreachable THEN [unreachable |-> TRUE]
       ELSE [unreachable |-> FALSE, date |-> d.date, time |-> t.time]

\* if let Ok(x) = Prerelease::new(text) { x } else { unreachable!() }, or EMPTY
EvalPre(e) == IF e.ctor = "EMPTY" THEN [ok |-> TRUE, val |-> <<>>] ELSE PrereleaseNew(e.arg)

EvalBuild(e) ==
    IF e.ctor = "EMPTY" THEN [ok |-> TRUE, val |-> <<>>] ELSE BuildMetadataNew(e.arg)

\* semver::Version { major, minor, patch, pre, build }
EvalVersion(tok) ==
    LET p == EvalPre(tok.pre)
        b == EvalBuild(tok.build)
    IN IF ~p.ok \/ ~b.ok THEN [unreachable |-> TRUE]
       ELSE [unreachable |-> FALSE,
             version |-> [major |-> tok.major, minor |-> tok.minor,
                          patch |-> tok.patch, pre |-> p.val, build |-> b.val]]

\* ----------------------------------------------------------------- inputs

\* Clock readings during a compilation: the last nanosecond of 2000-02-29
\* and 2024-03-15T09:07:22Z.
Clocks ==
    {[secs |-> 951868799, nanos |-> 999999999],
     [secs |-> 1710493642, nanos |-> 0]}

Later(a, b) == b.secs > a.secs \/ (b.secs = a.secs /\ b.nanos > a.nanos)

\* 1.75.0, 1.70.0-beta.2+sha.abcdef, 1.81.0-nightly, 0.9.10+a-b, 10.0.3-rc-1.0
Versions ==
    {[major |-> 1, minor |-> 75, patch |-> 0, pre |-> <<>>, build |-> <<>>],
     [major |-> 1, minor |-> 70, patch |-> 0,
      pre |-> <<"b", "e", "t", "a", ".", "2">>,
      build |-> <<"s", "h", "a", ".", "a", "b", "c", "d", "e", "f">>],
     [major |-> 1, minor |-> 81, patch |-> 0,
      pre |-> <<"n", "i", "g", "h", "t", "l", "y">>, build |-> <<>>],
     [major |-> 0, minor |-> 9, patch |-> 10, pre |-> <<>>, build |-> <<"a", "-", "b">>],
     [major |-> 10, minor |-> 0, patch |-> 3,
      pre |-> <<"r", "c", "-", "1", ".", "0">>, build |-> <<>>]}

QueryErrors == {"not found", "could not execute rustc"}

\* rustc_version::version(): Ok(version) or Err(error).
AllQueryOutcomes ==
    {[ok |-> TRUE, version |-> v] : v \in Versions}
    \cup {[ok |-> FALSE, err |-> e] : e \in QueryErrors}

\* The outcomes tried under interleaving: 1.70.0-beta.2+sha.abcdef and both
\* errors.
QueryOutcomes == {r \in AllQueryOutcomes : r.ok => r.version.minor = 70}

\* --------------------------------------------------------------- actions

Incomplete == [state |-> "incomplete"]

Init ==
    /\ clock \in Clocks
    /\ COMPILE_TIME = Incomplete
    /\ RUSTC_VERSION = Incomplete
    /\ pc = [t \in Threads |-> "idle"]
    /\ cur = [t \in Threads |-> "none"]
    /\ outcomes = [o \in Ops |-> {}]
    /\ nowCalls = 0
    /\ queryCalls = 0
    /\ calls = 0

\* The static a macro dereferences.
Uses(o) == IF o \in DateTimeOps THEN "COMPILE_TIME" ELSE "RUSTC_VERSION"

Cell(name) == IF name = "COMPILE_TIME" THEN COMPILE_TIME ELSE RUSTC_VERSION

\* Faulty variant: a check-then-initialise cell without the once guard, in
\* which a thread that finds the initialiser at work initialises as well.
OnceStateRacy(name) ==
    IF Cell(name).state = "running" THEN "incomplete" ELSE Cell(name).state

\* What Lazy::force finds in the named cell: "incomplete" (nobody has
\* touched it), "running" (its initialiser is at work) or "complete".
OnceState(name) == Cell(name).state

\* The body of macro o, run on the forced value v of the static it uses.
Handler(o, v) ==
    CASE o = "date" -> date(v)
      [] o = "date_str" -> date_str(v)
      [] o = "time" -> time(v)
      [] o = "time_str" -> time_str(v)
      [] o = "datetime" -> datetime(v)
      [] o = "datetime_str" -> datetime_str(v)
      [] o = "unix" -> unix(v)
      [] o = "rustc_version" -> rustc_version(v)
      [] o = "rustc_version_str" -> rustc_version_str(v)
      [] o = "rustc_version_major" -> rustc_version_major(v)
      [] o = "rustc_version_minor" -> rustc_version_minor(v)
      [] o = "rustc_version_patch" -> rustc_version_patch(v)
      [] o = "rustc_version_pre" -> rustc_version_pre(v)
      [] o = "rustc_version_build" -> rustc_version_build(v)

\* Macro o returns to the compiler: its tokens or its panic are recorded.
Return(o, v) == outcomes' = [outcomes EXCEPT ![o] = @ \cup {Handler(o, v)}]

\* The compiler expands macro o on thread t.  The macro dereferences its
\* static (Lazy::force): a published value is read and the body runs; an
\* untouched cell makes t its initialiser; a cell being initialised by
\* another thread makes t wait.
Invoke(t, o) ==
    /\ pc[t] = "idle"
    /\ calls < MaxCalls
    /\ calls' = calls + 1
    /\ LET st == OnceState(Uses(o))
       IN CASE st = "complete" ->
                 /\ Return(o, Cell(Uses(o)).value)
                 /\ UNCHANGED <<COMPILE_TIME, RUSTC_VERSION, pc, cur>>
            [] st = "incomplete" ->
                 /\ IF Uses(o) = "COMPILE_TIME"
                    THEN COMPILE_TIME' = [state |-> "running"] /\ UNCHANGED RUSTC_VERSION
                    ELSE RUSTC_VERSION' = [state |-> "running"] /\ UNCHANGED COMPILE_TIME
                 /\ pc' = [pc EXCEPT ![t] = "init"]
                 /\ cur' = [cur EXCEPT ![t] = o]
                 /\ UNCHANGED outcomes
            [] st = "running" ->
                 /\ pc' = [pc EXCEPT ![t] = "wait"]
                 /\ cur' = [cur EXCEPT ![t] = o]
                 /\ UNCHANGED <<COMPILE_TIME, RUSTC_VERSION, outcomes>>
    /\ UNCHANGED <<clock, nowCalls, queryCalls>>

\* Lazy::new(Utc::now): the initialiser reads the clock and publishes the
\* reading; its macro body then runs on it.
InitCompileTime(t) ==
    /\ pc[t] = "init"
    /\ Uses(cur[t]) = "COMPILE_TIME"
    /\ COMPILE_TIME' = [state |-> "complete", value |-> UtcNow(clock)]
    /\ nowCalls' = nowCalls + 1
    /\ Return(cur[t], UtcNow(clock))
    /\ pc' = [pc EXCEPT ![t] = "idle"]
    /\ cur' = [cur EXCEPT ![t] = "none"]
    /\ UNCHANGED <<clock, RUSTC_VERSION, queryCalls, calls>>

\* Lazy::new(rustc_version::version): the initialiser runs the query and
\* publishes its result, Ok or Err; its macro body then runs on it.
InitRustcVersion(t) ==
    /\ pc[t] = "init"
    /\ Uses(cur[t]) = "RUSTC_VERSION"
    /\ \E r \in QueryOutcomes :
           /\ RUSTC_VERSION' = [state |-> "complete", value |-> r]
           /\ Return(cur[t], r)
    /\ queryCalls' = queryCalls + 1
    /\ pc' = [pc EXCEPT ![t] = "idle"]
    /\ cur' = [cur EXCEPT ![t] = "none"]
    /\ UNCHANGED <<clock, COMPILE_TIME, nowCalls, calls>>

\* A waiting thread finds the cell published and runs its macro body.
Resume(t) ==
    /\ pc[t] = "wait"
    /\ OnceState(Uses(cur[t])) = "complete"
    /\ Return(cur[t], Cell(Uses(cur[t])).value)
    /\ pc' = [pc EXCEPT ![t] = "idle"]
    /\ cur' = [cur EXCEPT ![t] = "none"]
    /\ UNCHANGED <<clock, COMPILE_TIME, RUSTC_VERSION, nowCalls, queryCalls,
                   calls>>

\* Time passes.
Tick ==
    /\ \E c \in Clocks : Later(clock, c) /\ clock' = c
    /\ UNCHANGED <<COMPILE_TIME, RUSTC_VERSION, pc, cur, outcomes, nowCalls,
                   queryCalls, calls>>

Next ==
    \/ \E t \in Threads, o \in Ops : Invoke(t, o)
    \/ \E t \in Threads : InitCompileTime(t)
    \/ \E t \in Threads : InitRustcVersion(t)
    \/ \E t \in Threads : Resume(t)
    \/ Tick

Spec == Init /\ [][Next]_vars

\* ------------------------------------- one crate, every macro, in order

\* Days since 1970-01-01 of the sampled compilation dates: first and last
\* days of months and years, leap days of 1972, 2000 and 2024, 2024-03-15,
\* and the last days a 32-bit count of seconds reaches.
SampleDays == {0, 30, 58, 59, 364, 789, 1095, 10956, 10957, 11016, 11017,
               11323, 19722, 19782, 19797, 20088, 20089, 24836, 24854}

\* Seconds since midnight: 00:00:00, 00:00:59, 00:01:00, 00:59:59, 01:00:00,
\* 09:07:22, 12:00:00, 23:59:59.
SampleSecs == {0, 59, 60, 3599, 3600, 32842, 43200, 86399}

SampleNanos == {0, 999999999}

AllClocks ==
    {[secs |-> d * 86400 + s, nanos |-> n] :
        d \in SampleDays, s \in SampleSecs, n \in SampleNanos}

\* A crate whose source uses each macro once; the compiler expands them in
\* source order on one thread.
Program == <<"date", "date_str", "time", "time_str", "datetime", "datetime_str",
             "unix", "rustc_version", "rustc_version_str", "rustc_version_major",
             "rustc_version_minor", "rustc_version_patch", "rustc_version_pre",
             "rustc_version_build">>

InitAll ==
    /\ clock \in AllClocks
    /\ COMPILE_TIME = Incomplete
    /\ RUSTC_VERSION = Incomplete
    /\ pc = [t \in Threads |-> "idle"]
    /\ cur = [t \in Threads |-> "none"]
    /\ outcomes = [o \in Ops |-> {}]
    /\ nowCalls = 0
    /\ queryCalls = 0
    /\ calls = 0

\* The next macro of the program is expanded, start to end: its static is
\* forced (initialised if this is its first use) and its body runs.
ExpandNext ==
    /\ calls < Len(Program)
    /\ calls' = calls + 1
    /\ LET o == Program[calls + 1]
       IN CASE OnceState(Uses(o)) = "complete" ->
                 /\ Return(o, Cell(Uses(o)).value)
                 /\ UNCHANGED <<COMPILE_TIME, RUSTC_VERSION, nowCalls, queryCalls>>
            [] OnceState(Uses(o)) = "incomplete" /\ Uses(o) = "COMPILE_TIME" ->
                 /\ COMPILE_TIME' = [state |-> "complete", value |-> UtcNow(clock)]
                 /\ nowCalls' = nowCalls + 1
                 /\ Return(o, UtcNow(clock))
                 /\ UNCHANGED <<RUSTC_VERSION, queryCalls>>
            [] OnceState(Uses(o)) = "incomplete" /\ Uses(o) = "RUSTC_VERSION" ->
                 /\ \E r \in AllQueryOutcomes :
                        /\ RUSTC_VERSION' = [state |-> "complete", value |-> r]
                        /\ Return(o, r)
                 /\ queryCalls' = queryCalls + 1
                 /\ UNCHANGED <<COMPILE_TIME, nowCalls>>
    /\ UNCHANGED <<clock, pc, cur>>

NextAll == ExpandNext \/ Tick

SpecAll == InitAll /\ [][NextAll]_vars

\* --------------------------------------------------------------- properties

\* The literals macro o has emitted, and the messages it has panicked with.
Emitted(o) == {x.tokens : x \in {y \in outcomes[o] : ~y.panic}}

Panics(o) == {x.msg : x \in {y \in outcomes[o] : y.panic}}

AllIdle == \A t \in Threads : pc[t] = "idle"

\* C1: Utc::now is evaluated at most once, exactly once when COMPILE_TIME is
\* published, and every macro, date/time or version, has emitted at most
\* one distinct outcome however often it was expanded and however far the
\* clock has moved on.
C1_Idempotent ==
    /\ nowCalls <= 1
    /\ COMPILE_TIME.state = "complete" => nowCalls = 1
    /\ \A o \in Ops : Cardinality(outcomes[o]) <= 1

\* datetime! alone was expanded, at least twice, every expansion has
\* returned, and the clock no longer reads the captured second.
C1_Witness ==
    /\ calls >= 2
    /\ AllIdle
    /\ outcomes["datetime"] # {}
    /\ \A o \in Ops \ {"datetime"} : outcomes[o] = {}
    /\ Timestamp(UtcNow(clock)) # Timestamp(COMPILE_TIME.value)

\* C2: the toolchain query runs at most once, exactly once when
\* RUSTC_VERSION is published; every outcome of a version macro is the body
\* of that macro run on the published result; and a published result is
\* never replaced.
C2_QueryState ==
    /\ queryCalls <= 1
    /\ RUSTC_VERSION.state = "complete" => queryCalls = 1
    /\ \A o \in VersionOps :
           IF RUSTC_VERSION.state = "complete"
           THEN outcomes[o] \subseteq {Handler(o, RUSTC_VERSION.value)}
           ELSE outcomes[o] = {}

C2_QueryOnce ==
    /\ []C2_QueryState
    /\ [][RUSTC_VERSION.state = "complete" => RUSTC_VERSION' = RUSTC_VERSION]_vars

\* Two threads touched RUSTC_VERSION for the first time together: the
\* initialiser has published and returned while the other is still waiting.
C2_Witness ==
    /\ RUSTC_VERSION.state = "complete"
    /\ \E t \in Threads : pc[t] = "wait" /\ cur[t] \in VersionOps
    /\ \E o \in VersionOps : outcomes[o] # {}

\* C3: once the query has failed with message m, no version macro has
\* emitted a literal and every one that returned has panicked with
\* "Failed to get version: " followed by m.
C3_FailureReplayed ==
    (RUSTC_VERSION.state = "complete" /\ ~RUSTC_VERSION.value.ok) =>
        \A o \in VersionOps :
            /\ Emitted(o) = {}
            /\ Panics(o) \subseteq {"Failed to get version: " \o RUSTC_VERSION.value.err}

\* The query failed and three different version macros have aborted.
C3_Witness ==
    /\ RUSTC_VERSION.state = "complete"
    /\ ~RUSTC_VERSION.value.ok
    /\ Cardinality({o \in VersionOps : Panics(o) # {}}) = 3

\* C4: a step that touches RUSTC_VERSION or runs the query belongs to a
\* version macro and changes neither COMPILE_TIME nor a date/time outcome,
\* and symmetrically for COMPILE_TIME; and every date/time macro that
\* returned emitted the projection of COMPILE_TIME, never a panic, whatever
\* RUSTC_VERSION holds.
C4_DateTimeSucceeds ==
    \A o \in DateTimeOps :
        /\ Panics(o) = {}
        /\ COMPILE_TIME.state = "complete" =>
               outcomes[o] \subseteq {Handler(o, COMPILE_TIME.value)}
        /\ COMPILE_TIME.state # "complete" => outcomes[o] = {}

C4_VersionStep ==
    (RUSTC_VERSION' # RUSTC_VERSION \/ queryCalls' # queryCalls) =>
        /\ UNCHANGED <<COMPILE_TIME, nowCalls>>
        /\ \A o \in DateTimeOps : outcomes'[o] = outcomes[o]
        /\ \E t \in Threads :
               \/ pc[t] = "idle" /\ pc'[t] = "init" /\ cur'[t] \in VersionOps
               \/ pc[t] = "init" /\ pc'[t] = "idle" /\ cur[t] \in VersionOps

C4_DateTimeStep ==
    (COMPILE_TIME' # COMPILE_TIME \/ nowCalls' # nowCalls) =>
        /\ UNCHANGED <<RUSTC_VERSION, queryCalls>>
        /\ \A o \in VersionOps : outcomes'[o] = outcomes[o]
        /\ \E t \in Threads :
               \/ pc[t] = "idle" /\ pc'[t] = "init" /\ cur'[t] \in DateTimeOps
               \/ pc[t] = "init" /\ pc'[t] = "idle" /\ cur[t] \in DateTimeOps

C4_Frame ==
    /\ []C4_DateTimeSucceeds
    /\ [][C4_VersionStep /\ C4_DateTimeStep]_vars

\* The query failed, a version macro aborted, and two date/time macros
\* emitted literals in the same compilation.
C4_Witness ==
    /\ RUSTC_VERSION.state = "complete"
    /\ ~RUSTC_VERSION.value.ok
    /\ \E o \in VersionOps : Panics(o) # {}
    /\ Cardinality({o \in DateTimeOps : Emitted(o) # {}}) = 2
    /\ calls = 3
    /\ AllIdle

\* {year:04}-{month:02}-{day:02} of a NaiveDate.
DateFields(d) ==
    Pad(Year(d), 4) \o <<"-">> \o Pad(Month(d), 2) \o <<"-">> \o Pad(Day(d), 2)

\* {hour:02}:{minute:02}:{second:02} of a NaiveTime.
TimeFields(t) ==
    Pad(Hour(t), 2) \o <<":">> \o Pad(Minute(t), 2) \o <<":">> \o Pad(Second(t), 2)

C6_UnixAgrees ==
    \A x \in Emitted("datetime"), y \in Emitted("unix") :
        /\ ~EvalDateTime(x).unreachable
        /\ Timestamp(EvalDateTime(x)) = y

\* Both were expanded, the captured moment having a sub-second part.
C6_Witness ==
    /\ Emitted("datetime") # {}
    /\ Emitted("unix") # {}
    /\ COMPILE_TIME.value.time.frac > 0

\* The captured moment is 2024-03-15T09:07:22Z.
IsScenarioMoment ==
    /\ COMPILE_TIME.state = "complete"
    /\ LET d == COMPILE_TIME.value.date
           t == COMPILE_TIME.value.time
       IN /\ Year(d) = 2024 /\ Month(d) = 3 /\ Day(d) = 15
          /\ Hour(t) = 9 /\ Minute(t) = 7 /\ Second(t) = 22

ScenarioStrings ==
    /\ Emitted("date_str") \subseteq {<<"2", "0", "2", "4", "-", "0", "3", "-", "1", "5">>}
    /\ Emitted("time_str") \subseteq {<<"0", "9", ":", "0", "7", ":", "2", "2">>}
    /\ Emitted("datetime_str") \subseteq
           {<<"2", "0", "2", "4", "-", "0", "3", "-", "1", "5", "T",
              "0", "9", ":", "0", "7", ":", "2", "2", "Z">>}

\* C7 as stated: at 2024-03-15T09:07:22Z the strings are "2024-03-15",
\* "09:07:22" and "2024-03-15T09:07:22Z", and unix! emits 1710494842.
C7_AsStated ==
    IsScenarioMoment => (ScenarioStrings /\ Emitted("unix") \subseteq {1710494842})

\* C7, amended: the same strings, and unix! emits 1710493642.
C7_Scenario ==
    IsScenarioMoment => (ScenarioStrings /\ Emitted("unix") \subseteq {1710493642})

\* The four macros were expanded for a compilation at that moment.
C7_Witness ==
    /\ IsScenarioMoment
    /\ \A o \in {"date_str", "time_str", "datetime_str", "unix"} : Emitted(o) # {}

\* C8: with a successful query, the three integer macros emit the major,
\* minor and patch of the Version that rustc_version! builds, and the two
\* string macros its pre-release and build identifiers, the empty string
\* exactly where rustc_version! uses EMPTY.
C8_FieldsAgree ==
    \A x \in Emitted("rustc_version") :
        /\ ~EvalVersion(x).unreachable
        /\ LET v == EvalVersion(x).version
           IN /\ Emitted("rustc_version_major") \subseteq {v.major}
              /\ Emitted("rustc_version_minor") \subseteq {v.minor}
              /\ Emitted("rustc_version_patch") \subseteq {v.patch}
              /\ Emitted("rustc_version_pre") \subseteq {v.pre}
              /\ Emitted("rustc_version_build") \subseteq {v.build}
              /\ \A p \in Emitted("rustc_version_pre") : p = <<>> <=> x.pre.ctor = "EMPTY"
              /\ \A b \in Emitted("rustc_version_build") : b = <<>> <=> x.build.ctor = "EMPTY"

\* All six were expanded for a version whose patch differs from its minor
\* and which has a pre-release but no build identifier.
C8_Witness ==
    /\ \A o \in VersionOps \ {"rustc_version_str"} : Emitted(o) # {}
    /\ \E x \in Emitted("rustc_version") :
           x.patch # x.minor /\ x.pre.ctor = "new" /\ x.build.ctor = "EMPTY"

\* C9: rustc_version_str! is major.minor.patch, then -pre if there is a
\* pre-release, then +build if there is build metadata, and Version::parse
\* of it is the Version that rustc_version! builds.
C9_RoundTrip ==
    \A x \in Emitted("rustc_version"), y \in Emitted("rustc_version_str") :
        /\ ~EvalVersion(x).unreachable
        /\ LET v == EvalVersion(x).version
           IN /\ y = ToDigits(v.major) \o <<".">> \o ToDigits(v.minor) \o <<".">>
                     \o ToDigits(v.patch)
                     \o (IF v.pre # <<>> THEN <<"-">> \o v.pre ELSE <<>>)
                     \o (IF v.build # <<>> THEN <<"+">> \o v.build ELSE <<>>)
              /\ VersionParse(y).ok
              /\ VersionParse(y).val = v

\* Both were expanded for a version with a pre-release and build metadata.
C9_Witness ==
    /\ Emitted("rustc_version_str") # {}
    /\ \E x \in Emitted("rustc_version") : x.pre.ctor = "new" /\ x.build.ctor = "new"

\* C10: the tokens of date!, time!, datetime! and rustc_version! never reach
\* unreachable!(): the date and time triples are in range and pass
\* from_ymd_opt and from_hms_opt; an empty identifier is emitted as EMPTY
\* and a non-empty one passes Prerelease::new or BuildMetadata::new.
C10_NoUnreachable ==
    /\ \A x \in Emitted("date") \cup Emitted("datetime") :
           /\ x.month \in 1..12
           /\ x.day \in 1..DaysInMonth(x.year, x.month)
           /\ ~EvalDate(x).unreachable
    /\ \A x \in Emitted("time") \cup Emitted("datetime") :
           /\ x.hour \in 0..23 /\ x.minute \in 0..59 /\ x.second \in 0..59
           /\ ~EvalTime(x).unreachable
    /\ \A x \in Emitted("datetime") : ~EvalDateTime(x).unreachable
    /\ \A x \in Emitted("rustc_version") :
           /\ x.pre.ctor = "EMPTY" <=> RUSTC_VERSION.value.version.pre = <<>>
           /\ x.build.ctor = "EMPTY" <=> RUSTC_VERSION.value.version.build = <<>>
           /\ x.pre.ctor = "new" => x.pre.arg # <<>> /\ PrereleaseNew(x.pre.arg).ok
           /\ x.build.ctor = "new" => x.build.arg # <<>> /\ BuildMetadataNew(x.build.arg).ok
           /\ ~EvalVersion(x).unreachable

\* All four were expanded for a compilation on a 31 January with a version
\* that has build metadata and no pre-release.
C10_Witness ==
    /\ \A o \in {"date", "time", "datetime", "rustc_version"} : Emitted(o) # {}
    /\ \E x \in Emitted("datetime") : x.month = 1 /\ x.day = 31
    /\ \E x \in Emitted("rustc_version") : x.pre.ctor = "EMPTY" /\ x.build.ctor = "new"

====
